---- MODULE Spec2Model ----
(***************************************************************************)
(* A model of uscanlog's handler.py: the scan-log loader (read_xml_file),  *)
(* the single-slot SPEC data file cache (openSpecDataFile), the data       *)
(* extraction (parse_scan_data, process_SPEC_scan_data), the document      *)
(* builders and the per-scan loop of make_document_stream.                 *)
(*                                                                         *)
(* Conventions.  A Python str that the code inspects character by          *)
(* character (column names, commands, comments) is a sequence of           *)
(* one-character strings; a str that is only stored or compared whole      *)
(* (paths, scan numbers, states) is a TLA+ string.  Python's None is the   *)
(* string None below.  A dict is a function; an OrderedDict whose order    *)
(* the code relies on is a sequence of entries.  random_uuid() is a fresh  *)
(* number.  An uncaught exception ends the run: pc = "error" and err is    *)
(* the exception's class.                                                  *)
(***************************************************************************)
EXTENDS Integers, Sequences, FiniteSets, TLC

VARIABLES
    scans,              \* the registry: main()'s OrderedDict, in insertion order
    pc,                 \* "main" (loading), "stream" (in make_document_stream), "done", "error"
    err,                \* class of the uncaught exception when pc = "error", else ""
    nuuid,              \* number of uuids drawn so far
    nloads,             \* number of read_xml_file calls made
    arg,                \* the arguments of the latest read_xml_file call
    latest,             \* per id, the last file and scan node seen in a completed load
    idx,                \* make_document_stream: index of the scan handled next
    written,            \* what fp.write has written: one batch of documents per scan
    specdatafile_obj,   \* the cache slot (module global)
    opens,              \* log of openSpecDataFile requests and their outcomes
    data_stream         \* what parse_scan_data returned for the latest scan

vars == <<scans, pc, err, nuuid, nloads, arg, latest, idx, written,
          specdatafile_obj, opens, data_stream>>

-----------------------------------------------------------------------------
(* Bounds *)

MaxNodes == 3       \* scan nodes read from the scan logs of a run, all files together
MaxScans == 2       \* scans in the registry handed to make_document_stream

-----------------------------------------------------------------------------
(* Python values *)

None == "None"
Empty == [k \in {} |-> 0]

Put(d, k, v) == [x \in (DOMAIN d) \cup {k} |-> IF x = k THEN v ELSE d[x]]
Get(d, k, default) == IF k \in DOMAIN d THEN d[k] ELSE default

-----------------------------------------------------------------------------
(* The scan log: an XML file is a sequence of scan nodes.  A node has       *)
(* attributes (a dict; an attribute may be absent) and child elements.      *)

XmlNode(id, number, state, type, title, file, hasEnded) ==
    [attrs |-> [a \in ({"number", "type"}
                        \cup (IF id = None THEN {} ELSE {"id"})
                        \cup (IF state = None THEN {} ELSE {"state"}))
                  |-> CASE a = "id" -> id
                        [] a = "number" -> number
                        [] a = "state" -> state
                        [] OTHER -> type],
     children |-> <<[tag |-> "title", text |-> title],
                    [tag |-> "file", text |-> file],
                    [tag |-> "started", date |-> 17, time |-> 100]>>
                  \o (IF hasEnded
                      THEN <<[tag |-> "ended", date |-> 17, time |-> 160]>>
                      ELSE <<>>)]

random_uuid(n) == n + 1

RECURSIVE read_subnodes(_, _, _)
read_subnodes(scan, children, j) ==
    IF j > Len(children) THEN scan
    ELSE LET subnode == children[j]
         IN read_subnodes(
                IF subnode.tag \in {"started", "ended"}
                THEN Put(scan, subnode.tag, <<subnode.date, subnode.time>>)
                ELSE Put(scan, subnode.tag, subnode.text),
                children, j + 1)

scan_from_node(xml_filename, node, n) ==
    LET scan0 == [xml_filename |-> xml_filename,
                  xml_id |-> node.attrs["id"],
                  uuid |-> random_uuid(n),
                  number |-> Get(node.attrs, "number", None),
                  state |-> Get(node.attrs, "state", None),
                  type |-> Get(node.attrs, "type", None)]
    IN read_subnodes(scan0, node.children, 1)

IndexOf(db, scan_id) ==
    LET hits == {i \in 1..Len(db) : db[i].xml_id = scan_id}
    IN IF hits = {} THEN 0 ELSE CHOOSE i \in hits : TRUE

(* db[scan_id].update(scan) for a known id: keys of the old record survive *)
db_setitem_merge(db, scan_id, scan) ==
    LET i == IndexOf(db, scan_id)
    IN IF i = 0 THEN Append(db, scan)
       ELSE [db EXCEPT ![i] = [k \in (DOMAIN db[i]) \cup (DOMAIN scan)
                                 |-> IF k \in DOMAIN scan THEN scan[k] ELSE db[i][k]]]

(* db[scan_id] = scan: a known id keeps its place in the OrderedDict *)
db_setitem(db, scan_id, scan) ==
    LET i == IndexOf(db, scan_id)
    IN IF i = 0 THEN Append(db, scan) ELSE [db EXCEPT ![i] = scan]

RECURSIVE read_xml_nodes(_, _, _, _, _)
read_xml_nodes(xml_filename, nodes, i, db, n) ==
    IF i > Len(nodes) THEN [db |-> db, nuuid |-> n, raised |-> ""]
    ELSE LET node == nodes[i]
             scan_id == Get(node.attrs, "id", None)
         IN IF scan_id = None
            THEN [db |-> db, nuuid |-> n, raised |-> "ValueError"]
            ELSE read_xml_nodes(xml_filename, nodes, i + 1,
                                db_setitem(db, scan_id,
                                           scan_from_node(xml_filename, node, n)),
                                n + 1)

(* read_xml_file that looks for nodes without id before it stores any *)
read_xml_file_atomic(xml_filename, nodes, db, n) ==
    IF \E i \in 1..Len(nodes) : "id" \notin DOMAIN nodes[i].attrs
    THEN [db |-> db, nuuid |-> n, raised |-> "ValueError"]
    ELSE read_xml_nodes(xml_filename, nodes, 1, db, n)

read_xml_file(xml_filename, nodes, db, n) ==
    read_xml_nodes(xml_filename, nodes, 1, db, n)

-----------------------------------------------------------------------------
(* Inputs of the loader: scan nodes with or without an id, in two variants  *)
(* that differ in their attributes and children (the second has no state    *)
(* attribute and no ended element).                                         *)

RECURSIVE SeqsUpTo(_, _)
SeqsUpTo(S, n) ==
    IF n = 0 THEN {<<>>}
    ELSE LET shorter == SeqsUpTo(S, n - 1)
         IN shorter \cup {Append(s, x) : s \in {t \in shorter : Len(t) = n - 1}, x \in S}

LogIds == {"1:/d/s1.dat", "2:/d/s1.dat"}
LogNames == {"a.xml", "b.xml"}

LoadNodes ==
    {XmlNode(id, "1", "complete", "uascan", "first", "/d/s1.dat", TRUE) : id \in LogIds \cup {None}}
    \cup
    {XmlNode(id, "1", None, "uascan", "second", "/d/s1.dat", FALSE) : id \in LogIds \cup {None}}

(* A scan log holds at least one scan node. *)
LogContents == SeqsUpTo(LoadNodes, MaxNodes) \ {<<>>}

(* Per id, the last node of a file that carries it. *)
LastNodes(nodes) ==
    LET ids == {nodes[i].attrs["id"] : i \in {j \in 1..Len(nodes) : "id" \in DOMAIN nodes[j].attrs}}
    IN [id \in ids |->
          LET last == CHOOSE i \in 1..Len(nodes) :
                        /\ Get(nodes[i].attrs, "id", None) = id
                        /\ \A j \in (i + 1)..Len(nodes) : Get(nodes[j].attrs, "id", None) # id
          IN nodes[last]]

(* None, where the code expects an object (a handle, a document, a list). *)
NoObj == [isNone |-> TRUE]

(* main(): one read_xml_file call.  A ValueError is not caught anywhere.    *)
ReadXmlFile(fname, nodes) ==
    /\ pc = "main"
    /\ nuuid + Len(nodes) <= MaxNodes
    /\ LET r == read_xml_file(fname, nodes, scans, nuuid)
           seen == LastNodes(nodes)
       IN /\ scans' = r.db
          /\ nuuid' = r.nuuid
          /\ pc' = IF r.raised = "" THEN "main" ELSE "error"
          /\ err' = r.raised
          /\ latest' = IF r.raised # "" THEN latest
                       ELSE [id \in (DOMAIN latest) \cup (DOMAIN seen) |->
                               IF id \in DOMAIN seen
                               THEN [fname |-> fname, node |-> seen[id]]
                               ELSE latest[id]]
    /\ nloads' = nloads + 1
    /\ arg' = [fname |-> fname, nodes |-> nodes]
    /\ UNCHANGED <<idx, written, specdatafile_obj, opens, data_stream>>

InitLoad ==
    /\ scans = <<>>
    /\ pc = "main"
    /\ err = ""
    /\ nuuid = 0
    /\ nloads = 0
    /\ arg = [fname |-> "", nodes |-> <<>>]
    /\ latest = Empty
    /\ idx = 1
    /\ written = <<>>
    /\ specdatafile_obj = NoObj
    /\ opens = <<>>
    /\ data_stream = [raised |-> "", stream |-> NoObj]

NextLoad == \E fname \in LogNames, nodes \in LogContents : ReadXmlFile(fname, nodes)

SpecLoad == InitLoad /\ [][NextLoad]_vars

-----------------------------------------------------------------------------
(* Properties of the loader *)

Keys(db) == {db[i].xml_id : i \in 1..Len(db)}
Tags(node) == {node.children[j].tag : j \in 1..Len(node.children)}
AttrKeys == {"xml_filename", "xml_id", "uuid", "number", "state", "type"}

(* The value the last child element with this tag gives its key. *)
ChildValue(node, tag) ==
    LET j == CHOOSE j \in 1..Len(node.children) :
                /\ node.children[j].tag = tag
                /\ \A m \in (j + 1)..Len(node.children) : node.children[m].tag # tag
        c == node.children[j]
    IN IF tag \in {"started", "ended"} THEN <<c.date, c.time>> ELSE c.text

(* The record is the node's own: its keys are the fixed ones plus the       *)
(* node's child tags, and every value comes from the node.                  *)
IsRecordOf(s, fname, node) ==
    /\ DOMAIN s = AttrKeys \cup Tags(node)
    /\ s.xml_filename = fname
    /\ s.xml_id = node.attrs["id"]
    /\ \A a \in {"number", "state", "type"} : s[a] = Get(node.attrs, a, None)
    /\ \A t \in Tags(node) : s[t] = ChildValue(node, t)

(* C4: after any sequence of completed loads the registry holds exactly one *)
(* record per distinct id seen, and that record is wholly the one of the    *)
(* last load that contained the id: no key or value of an earlier record    *)
(* survives, and its uuid is its own.  Loading one file twice therefore     *)
(* leaves as many records as the file has distinct ids.                     *)
C4_LastLoadWins ==
    pc = "main" =>
        /\ Len(scans) = Cardinality(DOMAIN latest)
        /\ Keys(scans) = DOMAIN latest
        /\ \A i \in 1..Len(scans) :
              IsRecordOf(scans[i], latest[scans[i].xml_id].fname,
                         latest[scans[i].xml_id].node)
        /\ \A i, j \in 1..Len(scans) : i # j => scans[i].uuid # scans[j].uuid

(* A second load has replaced a record that had an ended element and a      *)
(* state by one that has neither, while another record was left alone.      *)
C4_Witness ==
    /\ pc = "main"
    /\ nloads = 2
    /\ Len(scans) = 2
    /\ \E i \in 1..2 : /\ scans[i].uuid = nuuid
                       /\ nuuid > 2
                       /\ "ended" \notin DOMAIN scans[i]
                       /\ scans[i].state = None
    /\ \E i \in 1..2 : scans[i].uuid <= 2 /\ "ended" \in DOMAIN scans[i]

FirstWithoutId(nodes) ==
    CHOOSE k \in 1..Len(nodes) :
        /\ "id" \notin DOMAIN nodes[k].attrs
        /\ \A j \in 1..(k - 1) : "id" \in DOMAIN nodes[j].attrs

HasNodeWithoutId(nodes) == \E k \in 1..Len(nodes) : "id" \notin DOMAIN nodes[k].attrs

(* C5 as claimed: a load that fails on a node without id leaves the         *)
(* registry as it was before the load began.                                *)
C5_FailedLoadLeavesRegistry ==
    [][pc' = "error" => scans' = scans]_vars

(* C5 as amended: a load fails, with ValueError, exactly when some node has *)
(* no id; the nodes before the first such node have been added or have      *)
(* replaced their records, no node at or after it has, every other record   *)
(* is untouched, and the registry never holds a record without a key.       *)
C5_FailedLoadKeepsPrefix ==
    /\ [](\A i \in 1..Len(scans) : scans[i].xml_id # None)
    /\ [][LET nodes == arg'.nodes
          IN /\ (pc' = "error") = HasNodeWithoutId(nodes)
             /\ pc' = "error" =>
                  LET k == FirstWithoutId(nodes)
                      prefix == SubSeq(nodes, 1, k - 1)
                      last == LastNodes(prefix)
                  IN /\ err' = "ValueError"
                     /\ Keys(scans') = Keys(scans) \cup DOMAIN last
                     /\ Len(scans') = Cardinality(Keys(scans'))
                     /\ \A i \in 1..Len(scans') :
                           IF scans'[i].xml_id \in DOMAIN last
                           THEN /\ IsRecordOf(scans'[i], arg'.fname, last[scans'[i].xml_id])
                                /\ scans'[i].uuid > nuuid
                           ELSE \E j \in 1..Len(scans) : scans[j] = scans'[i]
         ]_vars

(* A failed load has replaced a record of an earlier load. *)
C5_Witness ==
    /\ pc = "error"
    /\ err = "ValueError"
    /\ nloads = 2
    /\ Len(arg.nodes) = 2
    /\ "id" \notin DOMAIN arg.nodes[2].attrs
    /\ Len(scans) = 1
    /\ scans[1].uuid = 2
    /\ scans[1].xml_filename = arg.fname
    /\ nuuid = 2

-----------------------------------------------------------------------------
(* Python str operations, on sequences of characters *)

Range(f) == {f[x] : x \in DOMAIN f}

str_replace(k, c, r) == [i \in 1..Len(k) |-> IF k[i] = c THEN r ELSE k[i]]

(* cleanup_name without "-" in its list of characters *)
cleanup_name_keeps_hyphen(k) ==
    str_replace(str_replace(str_replace(k, ",", "_"), ".", "_"), " ", "_")

cleanup_name(k) ==
    str_replace(str_replace(str_replace(str_replace(k, ",", "_"), ".", "_"), " ", "_"), "-", "_")

(* str.split(): the maximal runs of non-blank characters, in order. *)
RECURSIVE str_split_from(_, _, _, _)
str_split_from(s, i, word, acc) ==
    IF i > Len(s)
    THEN IF word = <<>> THEN acc ELSE Append(acc, word)
    ELSE IF s[i] = " "
         THEN str_split_from(s, i + 1, <<>>, IF word = <<>> THEN acc ELSE Append(acc, word))
         ELSE str_split_from(s, i + 1, Append(word, s[i]), acc)

str_split(s) == str_split_from(s, 1, <<>>, <<>>)

(* a in b, for two str: a occurs in b as a substring. *)
str_in(a, b) == \E i \in 0..(Len(b) - Len(a)) : SubSeq(b, i + 1, i + Len(a)) = a

(* b.find(a): the lowest 0-based index where a occurs in b, or -1. *)
str_find(b, a) ==
    LET at == {i \in 0..(Len(b) - Len(a)) : SubSeq(b, i + 1, i + Len(a)) = a}
    IN IF at = {} THEN -1 ELSE CHOOSE i \in at : \A j \in at : i <= j

(* time_float parses "<date> <time>"; time_text prints a time.  A date is   *)
(* a day number and a time the second of the day.                           *)
time_float(datestring) == datestring[1] * 86400 + datestring[2]
time_text(t) == <<t \div 86400, t % 86400>>

-----------------------------------------------------------------------------
(* The measurement files on disk, as spec2nexus presents them.              *)

Epoch == <<"E", "p", "o", "c", "h">>
HKL == <<"H", " ", "K", " ", "L">>
I0abc == <<"I", "-", "a", ".", "b", ",", "c">>
FlyScan == <<"F", "l", "y", "S", "c", "a", "n">>
match_text == <<"F", "l", "y", "S", "c", "a", "n", " ", "f", "i", "l", "e", " ", "n", "a", "m", "e", " ", "=", " ">>

SpecScan(scanCmd, comments, column_first, data, metadata, positioner) ==
    [scanCmd |-> scanCmd, date |-> <<17, 90>>, T |-> <<"1">>,
     comments |-> comments, column_first |-> column_first, data |-> data,
     metadata |-> metadata, positioner |-> positioner,
     positioner_xref |-> (<<"m">> :> <<"m", "o", "t">>),
     counter_xref |-> (<<"I", "0">> :> I0abc)]

Column(name, values) == [name |-> name, values |-> values]

(* /d/s1.dat by scan number:                                                *)
(*   1  step scan, two rows, column names that need cleaning                *)
(*   2  FlyScan, with the file name in a comment                            *)
(*   3  SAXS (image only)                                                   *)
(*   4  step scan without Epoch column, one row                             *)
(*   5  step scan whose first column is not among the data columns          *)
(*   6  step scan by a macro called Scan                                    *)
(*   7  step scan without rows                                              *)
(* /d/s2.dat holds one step scan, number 1.  /d/bad.dat exists and is no    *)
(* SPEC data file; /d/none.dat does not exist.                              *)
SpecFiles ==
    [f \in {"/d/s1.dat", "/d/s2.dat"} |->
        IF f = "/d/s1.dat"
        THEN ("1" :> SpecScan(<<"a", "s", "c", "a", "n", " ", "m", " ", "0", " ", "1">>, <<>>, HKL,
                        <<Column(HKL, <<1, 2>>), Column(Epoch, <<3, 7>>), Column(I0abc, <<5, 6>>)>>,
                        (<<"a", ".", "b">> :> 4), (<<"m", " ", "x">> :> 9)))
          @@ ("2" :> SpecScan(<<"F", "l", "y", "S", "c", "a", "n", " ", "a", "r", " ", "8">>, <<<<"F", "l", "y", "S", "c", "a", "n", " ", "f", "i", "l", "e", " ", "n", "a", "m", "e", " ", "=", " ", "/", "o", ".", "h", "5", "\n">>>>, <<"x">>,
                        <<Column(<<"x">>, <<8>>), Column(Epoch, <<2>>)>>, Empty, Empty))
          @@ ("3" :> SpecScan(<<"S", "A", "X", "S", " ", "f", ".", "h", "5", " ", "2", "0">>, <<>>, <<"x">>,
                        <<Column(<<"x">>, <<8>>), Column(Epoch, <<2>>)>>, Empty, Empty))
          @@ ("4" :> SpecScan(<<"u", "a", "s", "c", "a", "n", " ", "1">>, <<>>, <<"x">>,
                        <<Column(<<"x">>, <<8>>)>>, Empty, Empty))
          @@ ("5" :> SpecScan(<<"u", "a", "s", "c", "a", "n", " ", "1">>, <<>>, <<"q">>,
                        <<Column(<<"x">>, <<8>>), Column(Epoch, <<2>>)>>, Empty, Empty))
          @@ ("6" :> SpecScan(<<"S", "c", "a", "n", " ", "m", " ", "1">>, <<>>, <<"x">>,
                        <<Column(<<"x">>, <<8>>), Column(Epoch, <<2>>)>>, Empty, Empty))
          @@ ("7" :> SpecScan(<<"u", "a", "s", "c", "a", "n", " ", "1">>, <<>>, <<"x">>,
                        <<Column(<<"x">>, <<>>), Column(Epoch, <<>>)>>, Empty, Empty))
        ELSE ("1" :> SpecScan(<<"u", "a", "s", "c", "a", "n", " ", "1">>, <<>>, <<"m">>,
                        <<Column(<<"m">>, <<8>>), Column(Epoch, <<2>>)>>, Empty, Empty))]

os_path_exists(path) == path \in {"/d/bad.dat"} \cup DOMAIN SpecFiles
IsSpecFile(path) == path \in DOMAIN SpecFiles

(* sdf.getScan(number): the scan's record, or None *)
getScan(sdf, number) ==
    IF number \in DOMAIN SpecFiles[sdf.fileName]
    THEN SpecFiles[sdf.fileName][number]
    ELSE NoObj

(* spec_scan.data (a dict in column order): keys, lookup *)
column_names(spec_scan) == [i \in 1..Len(spec_scan.data) |-> spec_scan.data[i].name]
data_has(spec_scan, k) == \E i \in 1..Len(spec_scan.data) : spec_scan.data[i].name = k
data_get(spec_scan, k) ==
    spec_scan.data[CHOOSE i \in 1..Len(spec_scan.data) : spec_scan.data[i].name = k].values

-----------------------------------------------------------------------------
(* The cache of the open SPEC data file *)

Handle(filename) == [isNone |-> FALSE, fileName |-> filename]

(* One request.  io is the cache slot and the request log; the result adds  *)
(* what the call returns (ret).  spec.SpecDataFile is called only when the  *)
(* log entry says "opened" or "failed".                                     *)
(* openSpecDataFile that never reuses the cached handle *)
openSpecDataFile_reopens(filename, io) ==
    IF IsSpecFile(filename)
    THEN [obj |-> Handle(filename), ret |-> Handle(filename),
          log |-> Append(io.log, [path |-> filename, outcome |-> "opened"])]
    ELSE [obj |-> NoObj, ret |-> NoObj,
          log |-> Append(io.log, [path |-> filename, outcome |-> "failed"])]

openSpecDataFile(filename, io) ==
    LET kept == IF io.obj # NoObj
                THEN IF "fileName" \in DOMAIN io.obj
                     THEN IF io.obj.fileName # filename THEN NoObj ELSE io.obj
                     ELSE NoObj
                ELSE io.obj
    IN IF kept = NoObj
       THEN IF IsSpecFile(filename)
            THEN [obj |-> Handle(filename), ret |-> Handle(filename),
                  log |-> Append(io.log, [path |-> filename, outcome |-> "opened"])]
            ELSE \* spec.NotASpecDataFile, caught: return
                 [obj |-> NoObj, ret |-> NoObj,
                  log |-> Append(io.log, [path |-> filename, outcome |-> "failed"])]
       ELSE [obj |-> kept, ret |-> kept,
             log |-> Append(io.log, [path |-> filename, outcome |-> "hit"])]

-----------------------------------------------------------------------------
(* The sidecar scan[STREAM_KEYWORD]: an OrderedDict from dotted keys to     *)
(* values.  A key is kept as its segments between the periods: Lit is a     *)
(* segment the code writes out, Name one it gets from cleanup_name (which   *)
(* leaves no period in it).                                                 *)

STREAM_KEYWORD == "_stream_"

Lit(s) == [lit |-> s]
Name(k) == [name |-> k]
Segment(seg) == IF "lit" \in DOMAIN seg THEN seg.lit ELSE seg.name

sidecar_set(scanmeta, key, value) ==
    LET at == {i \in 1..Len(scanmeta) : scanmeta[i].key = key}
    IN IF at = {} THEN Append(scanmeta, [key |-> key, value |-> value])
       ELSE [scanmeta EXCEPT ![CHOOSE i \in at : TRUE].value = value]

RECURSIVE set_path(_, _, _)
set_path(base, parts, value) ==
    IF Len(parts) = 1
    THEN Put(base, Segment(parts[1]), value)
    ELSE LET item == Segment(parts[1])
             below == IF item \in DOMAIN base THEN base[item] ELSE Empty
         IN Put(base, item, set_path(below, Tail(parts), value))

RECURSIVE add_event_metadata_from(_, _, _, _)
add_event_metadata_from(scanmeta, i, event, doc_type) ==
    IF i > Len(scanmeta) THEN event
    ELSE add_event_metadata_from(
            scanmeta, i + 1,
            IF scanmeta[i].key[1] = Lit(doc_type)
            THEN set_path(event, Tail(scanmeta[i].key), scanmeta[i].value)
            ELSE event,
            doc_type)

add_event_metadata(scan, event, doc_type) ==
    IF STREAM_KEYWORD \in DOMAIN scan
    THEN add_event_metadata_from(scan[STREAM_KEYWORD], 1, event, doc_type)
    ELSE event

-----------------------------------------------------------------------------
(* The start and stop documents.  A list the code returns is List(docs);   *)
(* where it returns None instead, NoObj.                                    *)

make_start_document(scan) ==
    add_event_metadata(
        scan,
        [time |-> time_float(scan.started),
         plan_name |-> scan.type,
         uid |-> scan.uuid,
         scan_id |-> scan.number,
         time_text |-> scan.started,
         SPEC |-> [filename |-> scan.file, scan_number |-> scan.number,
                   scan_macro |-> scan.type, title |-> scan.title],
         scanlog_id |-> scan.xml_id],
        "start")

exit_status == [complete |-> "success", scanning |-> "aborted"]

stop_document(scan, n, status) ==
    LET t == Get(scan, "ended", scan.started)
    IN add_event_metadata(
           scan,
           [time |-> time_float(t),
            uid |-> random_uuid(n),
            run_start |-> scan.uuid,
            exit_status |-> status,
            time_text |-> t,
            scanlog_state |-> scan.state],
           "stop")

(* Result: doc (NoObj for no document), the uuid count, the exception.       *)
(* make_stop_document that takes "success" for a state it does not know *)
make_stop_document_defaults(scan, n) ==
    IF scan.state = "unknown"
    THEN [doc |-> NoObj, nuuid |-> n, raised |-> ""]
    ELSE [doc |-> stop_document(scan, n, Get(exit_status, scan.state, "success")),
          nuuid |-> n + 1, raised |-> ""]

make_stop_document(scan, n) ==
    IF scan.state = "unknown"
    THEN [doc |-> NoObj, nuuid |-> n, raised |-> ""]
    ELSE IF scan.state \notin DOMAIN exit_status
         THEN [doc |-> NoObj, nuuid |-> n + 1, raised |-> "KeyError"]
         ELSE [doc |-> stop_document(scan, n, exit_status[scan.state]),
               nuuid |-> n + 1, raised |-> ""]

-----------------------------------------------------------------------------
(* Descriptor and event documents of a step scan *)

determine_data_source(k, spec_scan) ==
    IF k \in DOMAIN spec_scan.positioner THEN "SPEC positioner"
    ELSE IF k \in Range(spec_scan.positioner_xref) THEN "SPEC positioner name"
    ELSE IF k \in DOMAIN spec_scan.positioner_xref THEN "SPEC positioner mnemonic"
    ELSE IF k \in Range(spec_scan.counter_xref) THEN "SPEC counter name"
    ELSE IF k \in DOMAIN spec_scan.counter_xref THEN "SPEC counter mnemonic"
    ELSE "SPEC value"

(* The column whose value a cleaned key ends up with: the last one, in      *)
(* column order, that cleans to it.                                         *)
column_of(spec_scan, k_clean) ==
    LET at == {i \in 1..Len(spec_scan.data) : cleanup_name(spec_scan.data[i].name) = k_clean}
    IN spec_scan.data[CHOOSE i \in at : \A j \in at : j <= i]

clean_keys(spec_scan) == {cleanup_name(k) : k \in Range(column_names(spec_scan))}

descriptor_document(scan, spec_scan, n) ==
    [time |-> time_float(spec_scan.date),
     uid |-> random_uuid(n),
     run_start |-> scan.uuid,
     data_keys |-> [k_clean \in clean_keys(spec_scan) |->
                      LET k == column_of(spec_scan, k_clean).name
                      IN [dtype |-> "number",
                          source |-> determine_data_source(k, spec_scan),
                          shape |-> <<>>,
                          SPEC_name |-> k]],
     time_text |-> time_text(time_float(spec_scan.date))]

(* Event i + 1 (i counts from 0, as in the code); needs the Epoch column. *)
event_document(spec_scan, i, t_base, descriptor_uuid, n) ==
    LET t == data_get(spec_scan, Epoch)[i + 1] + t_base
    IN [time |-> t,
        uid |-> random_uuid(n),
        seq_num |-> i + 1,
        descriptor |-> descriptor_uuid,
        data |-> [k_clean \in clean_keys(spec_scan) |->
                     column_of(spec_scan, k_clean).values[i + 1]],
        timestamps |-> [k_clean \in clean_keys(spec_scan) |-> t],
        time_text |-> time_text(t)]

Doc(kind, doc) == [kind |-> kind, doc |-> doc]
List(docs) == [isNone |-> FALSE, docs |-> docs]
Io(o) == [obj |-> o.obj, log |-> o.log]
Returned(stream, scan, io, n, raised) ==
    [stream |-> stream, scan |-> scan, io |-> io, nuuid |-> n, raised |-> raised]

num_events_key == <<Lit("stop"), Lit("num_events")>>

(* process_rows with range(num_observations - 1): the last row gets no event *)
process_rows_short(scan, io, n, spec_scan, descriptor, num_observations) ==
    LET counted == [scan EXCEPT ![STREAM_KEYWORD] =
                       sidecar_set(@, num_events_key, num_observations)]
    IN IF num_observations > 1 /\ ~data_has(spec_scan, Epoch)
       THEN Returned(NoObj, counted, io, n + 1, "TypeError")
       ELSE Returned(
               List(<<Doc("descriptor", descriptor)>>
                    \o [i \in 1..(num_observations - 1) |->
                          Doc("event", event_document(spec_scan, i - 1, descriptor.time,
                                                      descriptor.uid, n + i))]),
               counted, io, n + num_observations, "")

(* process_SPEC_scan_data, from the line that counts the rows on *)
process_rows(scan, io, n, spec_scan, descriptor, num_observations) ==
    LET counted == [scan EXCEPT ![STREAM_KEYWORD] =
                       sidecar_set(@, num_events_key, num_observations)]
    IN IF num_observations > 0 /\ ~data_has(spec_scan, Epoch)
       THEN \* spec_scan.data.get("Epoch", 0)[i]: an int cannot be indexed
            Returned(NoObj, counted, io, n + 1, "TypeError")
       ELSE Returned(
               List(<<Doc("descriptor", descriptor)>>
                    \o [i \in 1..num_observations |->
                          Doc("event", event_document(spec_scan, i - 1, descriptor.time,
                                                      descriptor.uid, n + i))]),
               counted, io, n + 1 + num_observations, "")

(* process_SPEC_scan_data, from spec_scan.interpret() on *)
process_scan(scan, io, n, spec_scan) ==
    IF spec_scan = NoObj
    THEN \* None has no method interpret
         Returned(NoObj, scan, io, n, "AttributeError")
    ELSE IF ~data_has(spec_scan, spec_scan.column_first)
    THEN \* the descriptor is built and dropped
         Returned(NoObj, scan, io, n + 1, "")
    ELSE process_rows(scan, io, n, spec_scan,
                      descriptor_document(scan, spec_scan, n),
                      Len(data_get(spec_scan, spec_scan.column_first)))

(* process_SPEC_scan_data, after its call of openSpecDataFile (o) *)
process_opened(scan, o, n) ==
    IF o.ret = NoObj THEN Returned(NoObj, scan, Io(o), n, "")
    ELSE process_scan(scan, Io(o), n, getScan(o.ret, scan.number))

process_SPEC_scan_data(scan, io, n) ==
    process_opened(scan, openSpecDataFile(scan.file, io), n)

-----------------------------------------------------------------------------
(* parse_scan_data *)

(* Python's order of str, for sorted(): character codes, then length. *)
Ord(c) ==
    CASE c = " " -> 32 [] c = "," -> 44 [] c = "-" -> 45 [] c = "." -> 46
      [] c = "_" -> 95 [] c = "a" -> 97 [] c = "b" -> 98 [] c = "m" -> 109
      [] c = "x" -> 120 [] OTHER -> 63

str_less(a, b) ==
    \/ \E i \in 1..Len(a) :
          /\ i <= Len(b)
          /\ SubSeq(a, 1, i - 1) = SubSeq(b, 1, i - 1)
          /\ Ord(a[i]) < Ord(b[i])
    \/ Len(a) < Len(b) /\ SubSeq(b, 1, Len(a)) = a

RECURSIVE sorted_keys(_)
sorted_keys(keys) ==
    IF keys = {} THEN <<>>
    ELSE LET first == CHOOSE k \in keys : \A other \in keys \ {k} : str_less(k, other)
         IN <<first>> \o sorted_keys(keys \ {first})

(* for k, v in sorted(d.items()): two sidecar entries per item, under group *)
RECURSIVE add_items(_, _, _, _, _)
add_items(scanmeta, group, d, order, i) ==
    IF i > Len(order) THEN scanmeta
    ELSE LET k == order[i]
             k_clean == cleanup_name(k)
         IN add_items(
                sidecar_set(
                    sidecar_set(scanmeta,
                                <<Lit("start"), Lit(group), Name(k_clean), Lit("value")>>, d[k]),
                    <<Lit("start"), Lit(group), Name(k_clean), Lit("name")>>, k),
                group, d, order, i + 1)

hdf5_file_key == <<Lit("start"), Lit("SPEC"), Lit("hdf5_file")>>

(* The first comment that holds match_text gives the file name. *)
flyscan_file(scanmeta, comments) ==
    LET at == {c \in 1..Len(comments) : str_find(comments[c], match_text) >= 0}
    IN IF at = {} THEN scanmeta
       ELSE LET comm == comments[CHOOSE c \in at : \A d \in at : c <= d]
                p == str_find(comm, match_text) + Len(match_text)
            IN sidecar_set(scanmeta, hdf5_file_key, SubSeq(comm, p + 1, Len(comm) - 1))

image_macros == {<<"S", "A", "X", "S">>, <<"W", "A", "X", "S">>, <<"p", "i", "n", "S", "A", "X", "S">>}

scan_metadata(spec_scan) ==
    LET command == <<[key |-> <<Lit("start"), Lit("SPEC"), Lit("command")>>,
                      value |-> spec_scan.scanCmd]>>
        basis == IF "T" \in DOMAIN spec_scan /\ Len(spec_scan.T) > 0
                 THEN sidecar_set(command, <<Lit("start"), Lit("counter_basis")>>,
                                  [description |-> "fixed time", value |-> spec_scan.T,
                                   units |-> "s"])
                 ELSE IF "M" \in DOMAIN spec_scan /\ Len(spec_scan.M) > 0
                 THEN sidecar_set(command, <<Lit("start"), Lit("counter_basis")>>,
                                  [description |-> "fixed monitor count",
                                   value |-> spec_scan.M, units |-> "counts"])
                 ELSE command
        meta == add_items(basis, "metadata", spec_scan.metadata,
                          sorted_keys(DOMAIN spec_scan.metadata), 1)
    IN add_items(meta, "positioner", spec_scan.positioner,
                 sorted_keys(DOMAIN spec_scan.positioner), 1)

(* macro_name in ('FlyScan'): the parentheses make no tuple, so this is the *)
(* substring test of two str.                                               *)
is_flyscan(macro_name) == str_in(macro_name, FlyScan)

(* stream += data_stream, unless process_SPEC_scan_data returned None *)
step_scan_stream(r) ==
    IF r.raised = "" /\ r.stream = NoObj THEN [r EXCEPT !.stream = List(<<>>)] ELSE r

(* parse_scan_data, from the macro dispatch on; scan holds the sidecar *)
dispatch(scan, io, n, spec_scan, words) ==
    IF Len(words) = 0
    THEN Returned(NoObj, scan, io, n, "IndexError")
    ELSE IF words[1] \in image_macros
    THEN IF Len(words) < 2
         THEN Returned(NoObj, scan, io, n, "IndexError")
         ELSE Returned(List(<<>>),
                       [scan EXCEPT ![STREAM_KEYWORD] = sidecar_set(@, hdf5_file_key, words[2])],
                       io, n, "")
    ELSE IF is_flyscan(words[1])
    THEN Returned(List(<<>>),
                  [scan EXCEPT ![STREAM_KEYWORD] = flyscan_file(@, spec_scan.comments)],
                  io, n, "")
    ELSE step_scan_stream(process_SPEC_scan_data(scan, io, n))

(* parse_scan_data, from spec_scan.interpret() on *)
parse_scan(scan, io, n, spec_scan) ==
    IF spec_scan = NoObj
    THEN \* None has no method interpret
         Returned(NoObj, scan, io, n, "AttributeError")
    ELSE dispatch(Put(scan, STREAM_KEYWORD, scan_metadata(spec_scan)), io, n,
                  spec_scan, str_split(spec_scan.scanCmd))

(* parse_scan_data, after its call of openSpecDataFile (o) *)
parse_opened(scan, o, n) ==
    IF o.ret = NoObj THEN Returned(NoObj, scan, Io(o), n, "")
    ELSE parse_scan(scan, Io(o), n, getScan(o.ret, scan.number))

parse_scan_data(scan, io, n) ==
    IF ~os_path_exists(scan.file) THEN Returned(NoObj, scan, io, n, "")
    ELSE parse_opened(scan, openSpecDataFile(scan.file, io), n)

-----------------------------------------------------------------------------
(* make_document_stream: one scan per step *)

(* The loop body after parse_scan_data returned p without raising: start    *)
(* and stop are what make_start_document and make_stop_document give.       *)
Emit(p, start, stop) ==
    /\ err' = stop.raised
    /\ nuuid' = stop.nuuid
    /\ IF stop.raised # ""
       THEN /\ pc' = "error"
            /\ UNCHANGED <<idx, written>>
       ELSE /\ pc' = "stream"
            /\ written' = Append(written,
                    <<Doc("start", start)>>
                    \o (IF p.stream # NoObj /\ Len(p.stream.docs) > 0
                        THEN p.stream.docs ELSE <<>>)
                    \o (IF stop.doc # NoObj THEN <<Doc("stop", stop.doc)>> ELSE <<>>))
            /\ idx' = idx + 1

(* The loop body, given what parse_scan_data returned or raised (p). *)
Body(p) ==
    /\ scans' = [scans EXCEPT ![idx] = p.scan]
    /\ specdatafile_obj' = p.io.obj
    /\ opens' = p.io.log
    /\ data_stream' = [raised |-> p.raised, stream |-> p.stream]
    /\ IF p.raised # ""
       THEN /\ pc' = "error"
            /\ err' = p.raised
            /\ nuuid' = p.nuuid
            /\ UNCHANGED <<idx, written>>
       ELSE Emit(p, make_start_document(p.scan), make_stop_document(p.scan, p.nuuid))

ScanStep ==
    /\ pc = "stream"
    /\ idx <= Len(scans)
    /\ Body(parse_scan_data(scans[idx], [obj |-> specdatafile_obj, log |-> opens], nuuid))
    /\ UNCHANGED <<nloads, arg, latest>>

(* The loop is over: the output file is closed and the function returns. *)
Finish ==
    /\ pc = "stream"
    /\ idx > Len(scans)
    /\ pc' = "done"
    /\ UNCHANGED <<scans, err, nuuid, nloads, arg, latest, idx, written,
                   specdatafile_obj, opens, data_stream>>

(* The registries make_document_stream is given: main() has loaded one scan *)
(* log whose nodes have distinct ids, any state (or none) and any of the    *)
(* measurement situations.                                                  *)
ScanIds == <<"scan1", "scan2", "scan3", "scan4">>
States == {"complete", "scanning", "unknown", "failed", None}
Measurements ==
    {<<"/d/none.dat", "1">>, <<"/d/bad.dat", "1">>, <<"/d/s2.dat", "1">>}
    \cup {<<"/d/s1.dat", number>> : number \in {"1", "2", "3", "4", "5", "6", "7", "9"}}

StreamInput(choice) ==
    [i \in DOMAIN choice |->
        XmlNode(ScanIds[i], choice[i][2][2], choice[i][1], "uascan", "sample",
                choice[i][2][1], TRUE)]

Init ==
    \E len \in 0..MaxScans :
        \E choice \in [1..len -> States \X Measurements] :
            LET r == read_xml_file("scanlog.xml", StreamInput(choice), <<>>, 0)
            IN /\ scans = r.db
               /\ nuuid = r.nuuid
               /\ pc = "stream"
               /\ err = ""
               /\ nloads = 1
               /\ arg = [fname |-> "scanlog.xml", nodes |-> <<>>]
               /\ latest = Empty
               /\ idx = 1
               /\ written = <<>>
               /\ specdatafile_obj = NoObj
               /\ opens = <<>>
               /\ data_stream = [raised |-> "", stream |-> NoObj]

Next == ScanStep \/ Finish

Spec == Init /\ [][Next]_vars

-----------------------------------------------------------------------------
(* Properties of the document stream *)

Count(b, kind) == Cardinality({j \in 1..Len(b) : b[j].kind = kind})
IsEvent(d) == d.kind = "event"
Events(b) == SelectSeq(b, IsEvent)
Kinds(b) == [j \in 1..Len(b) |-> b[j].kind]

(* The scan the loop handled last (0: none yet), and whether scan i has     *)
(* been handled: its batch is written, or the run ended in it.              *)
LastHandled == IF pc = "error" THEN idx ELSE idx - 1
Handled(i) == pc \in {"stream", "done", "error"} /\ i <= LastHandled
EmittedFor(i) == IF i <= Len(written) THEN written[i] ELSE <<>>

Mapped(scan) == scan.state \in {"complete", "scanning", "unknown"}

(* The measurement record of a scan, when the file resolves one *)
HasRecord(scan) == IsSpecFile(scan.file) /\ scan.number \in DOMAIN SpecFiles[scan.file]
RecordOf(scan) == SpecFiles[scan.file][scan.number]
HasFirstColumn(scan) == HasRecord(scan) /\ data_has(RecordOf(scan), RecordOf(scan).column_first)
Rows(scan) == Len(data_get(RecordOf(scan), RecordOf(scan).column_first))
FirstToken(scan) == str_split(RecordOf(scan).scanCmd)[1]

WellFormedBatch(b, scan) ==
    /\ Len(b) >= 1
    /\ b[1].kind = "start"
    /\ Count(b, "start") = 1
    /\ IF scan.state = "unknown"
       THEN Count(b, "stop") = 0
       ELSE Count(b, "stop") = 1 /\ b[Len(b)].kind = "stop"
    /\ \A j \in 1..Len(b) :
          b[j].kind \in {"descriptor", "event"} =>
              /\ 1 < j
              /\ scan.state # "unknown" => j < Len(b)
    /\ \A k \in 1..Len(Events(b)) : Events(b)[k].doc.seq_num = k

(* C1 as claimed, for the records whose state the stop document knows       *)
(* (complete, scanning, unknown): whatever the measurement data, the        *)
(* documents emitted for a handled scan begin with exactly one start, end   *)
(* with exactly one stop unless the state is unknown (then there is none),  *)
(* hold every descriptor and event strictly in between, and number the      *)
(* events 1, 2, ..., n in order.                                            *)
C1_EveryScanGetsItsDocuments ==
    \A i \in 1..Len(scans) :
        Handled(i) /\ Mapped(scans[i]) => WellFormedBatch(EmittedFor(i), scans[i])

(* C2: in every batch written with a stop document, a num_events the stop   *)
(* carries equals the number of events of the batch, and a batch with at    *)
(* least one event has a stop that carries num_events.                      *)
C2_NumEventsCountsEvents ==
    \A i \in 1..Len(written) :
        \A j \in 1..Len(written[i]) :
            written[i][j].kind = "stop" =>
                LET stop == written[i][j].doc
                    n == Count(written[i], "event")
                IN /\ "num_events" \in DOMAIN stop => stop.num_events = n
                   /\ n >= 1 => "num_events" \in DOMAIN stop

(* A batch with two events whose stop says 2, and one without events whose  *)
(* stop says 0.                                                             *)
C2_Witness ==
    /\ Len(written) = 2
    /\ Count(written[1], "event") = 2
    /\ written[1][Len(written[1])].kind = "stop"
    /\ written[1][Len(written[1])].doc.num_events = 2
    /\ Count(written[2], "event") = 0
    /\ written[2][Len(written[2])].kind = "stop"
    /\ "num_events" \in DOMAIN written[2][Len(written[2])].doc
    /\ written[2][Len(written[2])].doc.num_events = 0

(* The measurement data of a scan is absent: no file, no SPEC data file, no *)
(* record of that number, or no first data column in the record.            *)
DataAbsent(scan) == ~os_path_exists(scan.file) \/ ~HasFirstColumn(scan)

(* C3 as claimed: absent measurement data never ends the run; the scan gets *)
(* its start document and, unless its state is unknown, its stop document,  *)
(* and nothing else.  (Records with a state the stop document does not      *)
(* know are left out: there make_stop_document raises whatever the data.)   *)
C3_AbsentDataNeverAborts ==
    \A i \in 1..Len(scans) :
        Handled(i) /\ Mapped(scans[i]) /\ DataAbsent(scans[i]) =>
            /\ ~(pc = "error" /\ idx = i)
            /\ Kinds(EmittedFor(i)) = IF scans[i].state = "unknown"
                                      THEN <<"start">> ELSE <<"start", "stop">>

(* C6: a stop document is written only for state complete, with            *)
(* exit_status success, or scanning, with aborted; for any other state but  *)
(* unknown, the absent state included, building it raises KeyError, the run *)
(* ends there and no stop document of that scan is written.                 *)
C6_ExitStatusOrError ==
    /\ \A i \in 1..Len(written) :
          \A j \in 1..Len(written[i]) :
              written[i][j].kind = "stop" =>
                  \/ scans[i].state = "complete" /\ written[i][j].doc.exit_status = "success"
                  \/ scans[i].state = "scanning" /\ written[i][j].doc.exit_status = "aborted"
    /\ \A i \in 1..Len(scans) :
          Handled(i) /\ scans[i].state \notin {"complete", "scanning", "unknown"} =>
              /\ pc = "error"
              /\ idx = i
              /\ Len(written) = i - 1
              /\ data_stream.raised = "" => err = "KeyError"

(* A scanning scan got its aborted stop, then a scan without state          *)
(* attribute ended the run with KeyError.                                   *)
C6_Witness ==
    /\ pc = "error"
    /\ err = "KeyError"
    /\ idx = 2
    /\ scans[2].state = None
    /\ Len(written) = 1
    /\ scans[1].state = "scanning"
    /\ written[1][Len(written[1])].kind = "stop"
    /\ written[1][Len(written[1])].doc.exit_status = "aborted"

(* The path the slot holds after the first j requests of a log ("": none) *)
CachedAfter(log, j) ==
    IF j = 0 \/ log[j].outcome = "failed" THEN "" ELSE log[j].path

(* C7: the slot holds the handle of the last request that did not fail, or  *)
(* nothing; a request for the cached path is answered without opening the   *)
(* file; a request for another path opens that file, and a file that is no  *)
(* SPEC data file leaves the slot empty and returns None without raising;   *)
(* so of consecutive requests for one SPEC data file only the first opens.  *)
C7_SingleSlotCache ==
    /\ specdatafile_obj = IF CachedAfter(opens, Len(opens)) = "" THEN NoObj
                          ELSE Handle(CachedAfter(opens, Len(opens)))
    /\ \A j \in 1..Len(opens) :
          IF CachedAfter(opens, j - 1) = opens[j].path
          THEN opens[j].outcome = "hit"
          ELSE opens[j].outcome = IF IsSpecFile(opens[j].path) THEN "opened" ELSE "failed"
    /\ \A j \in 2..Len(opens) :
          opens[j].path = opens[j - 1].path /\ IsSpecFile(opens[j].path)
              => opens[j].outcome = "hit"
    /\ (Len(opens) > 0 /\ opens[Len(opens)].outcome = "failed")
          => data_stream = [raised |-> "", stream |-> NoObj]

(* One file was opened and then found cached; a request for another file    *)
(* replaced it, and that file was then found cached too.                    *)
C7_Witness ==
    /\ Len(opens) = 4
    /\ opens[1].outcome = "opened"
    /\ opens[2].outcome = "hit"
    /\ opens[3].outcome = "opened"
    /\ opens[3].path # opens[1].path
    /\ opens[4].outcome = "hit"
    /\ specdatafile_obj = Handle(opens[3].path)

Unclean == {",", ".", " ", "-"}
Sanitized(k) == [i \in 1..Len(k) |-> IF k[i] \in Unclean THEN "_" ELSE k[i]]
IsClean(k) == \A i \in 1..Len(k) : k[i] \notin Unclean

(* C8: the keys of a descriptor's data_keys and of every event's data and   *)
(* timestamps are the scan's column names with every comma, period, space   *)
(* and hyphen replaced by an underscore and nothing else changed; none of   *)
(* those characters is left in a key.                                       *)
C8_KeysAreSanitized ==
    \A i \in 1..Len(written) :
        \A j \in 1..Len(written[i]) :
            LET d == written[i][j]
                want == {Sanitized(k) : k \in Range(column_names(RecordOf(scans[i])))}
            IN /\ d.kind = "descriptor" =>
                     /\ DOMAIN d.doc.data_keys = want
                     /\ \A k \in DOMAIN d.doc.data_keys : IsClean(k)
               /\ d.kind = "event" =>
                     /\ DOMAIN d.doc.data = want
                     /\ DOMAIN d.doc.timestamps = want
                     /\ \A k \in DOMAIN d.doc.data \cup DOMAIN d.doc.timestamps : IsClean(k)

(* Column "H K L" is key "H_K_L" of a descriptor and an event, and a column *)
(* with hyphen, period and comma has been cleaned too.                      *)
C8_Witness ==
    \E i \in 1..Len(written) :
        /\ \E j \in 1..Len(written[i]) :
              /\ written[i][j].kind = "descriptor"
              /\ <<"H", "_", "K", "_", "L">> \in DOMAIN written[i][j].doc.data_keys
              /\ written[i][j].doc.data_keys[<<"H", "_", "K", "_", "L">>].SPEC_name = HKL
              /\ <<"I", "_", "a", "_", "b", "_", "c">> \in DOMAIN written[i][j].doc.data_keys
        /\ \E j \in 1..Len(written[i]) :
              /\ written[i][j].kind = "event"
              /\ <<"H", "_", "K", "_", "L">> \in DOMAIN written[i][j].doc.data
              /\ <<"H", "_", "K", "_", "L">> \in DOMAIN written[i][j].doc.timestamps

(* C9 as claimed, for records that have an Epoch column: when the record is *)
(* resolved and has its first data column, parse_scan_data returns no       *)
(* document if the first token of the command is SAXS, WAXS, pinSAXS or     *)
(* exactly FlyScan, and for every other first token one descriptor followed *)
(* by one event per row.                                                    *)
C9_DispatchOnFirstToken ==
    (LastHandled >= 1 /\ HasFirstColumn(scans[LastHandled])
        /\ data_has(RecordOf(scans[LastHandled]), Epoch)) =>
        /\ data_stream.raised = ""
        /\ data_stream.stream # NoObj
        /\ Kinds(data_stream.stream.docs) =
              IF FirstToken(scans[LastHandled]) \in image_macros
                 \/ FirstToken(scans[LastHandled]) = FlyScan
              THEN <<>>
              ELSE <<"descriptor">> \o [k \in 1..Rows(scans[LastHandled]) |-> "event"]

(* C10 as claimed, for the scans the code treats as step scans: each event  *)
(* is timed at the base time plus the row's Epoch value, or at the base     *)
(* time when the record has no Epoch column; there is one event per row and *)
(* no error.                                                                *)
C10_EventTimeDefaultsToBase ==
    (LastHandled >= 1 /\ HasFirstColumn(scans[LastHandled])
        /\ FirstToken(scans[LastHandled]) \notin image_macros
        /\ ~is_flyscan(FirstToken(scans[LastHandled]))) =>
        /\ data_stream.raised = ""
        /\ data_stream.stream # NoObj
        /\ Len(Events(data_stream.stream.docs)) = Rows(scans[LastHandled])
        /\ \A k \in 1..Len(Events(data_stream.stream.docs)) :
              Events(data_stream.stream.docs)[k].doc.time =
                  time_float(RecordOf(scans[LastHandled]).date)
                  + (IF data_has(RecordOf(scans[LastHandled]), Epoch)
                     THEN data_get(RecordOf(scans[LastHandled]), Epoch)[k]
                     ELSE 0)

====
